---- MODULE Spec2Model ----
(***************************************************************************)
(* A model of bends.py, the Build Error Notification Dispatch System:      *)
(* the build-history classifiers, the per-team ledger builder, the digest  *)
(* renderers and the chunking Slack dispatcher.                            *)
(*                                                                         *)
(* Time is counted in whole days.  None is the record None; a call that    *)
(* can raise returns either [ret |-> value] or [raise |-> exception name]. *)
(***************************************************************************)
EXTENDS Integers, Sequences, FiniteSets, TLC

VARIABLES
    pc,                         \* position of the running function
    error,                      \* the exception that ended the run, or "None"
    \* check_development_status and get_recent_scheduled_pipeline
    pipelines,                  \* the history handed to the classifiers
    clock,                      \* the datetime.now() readings of the last scan
    branch,                     \* what get_default_branch returned
    in_development,             \* result of check_development_status
    recent_scheduled_pipeline,  \* result of get_recent_scheduled_pipeline
    \* process_services
    teams_services,             \* ordered dict: team -> list of services
    teams,                      \* the allow-list of teams (<<>>: none given)
    override,                   \* the ignore patterns (<<>>: none given)
    dry_run,
    latest_pipelines,           \* what get_latest_pipelines returned for the service
    teams_recent_builds,        \* the ledger, ordered dict: team -> Succeeded, Failed
    team_i,                     \* position of the loop over teams
    service_i,                  \* position of the loop over a team's services
    fetched,                    \* repositories whose build history was requested
    printed,                    \* slugs logged by the dry run
    \* post_team_summaries_to_slack and post_to_slack
    SLACK_WEBHOOK_URL,          \* the environment variable
    summaries,                  \* ordered dict: team -> blocks
    post_team,                  \* position of the loop over summaries
    post_i,                     \* offset i of the loop over a team's blocks
    posted                      \* the requests made to the webhook

classifierVars == <<pipelines, clock, branch, in_development, recent_scheduled_pipeline>>
inputVars == <<teams_services, teams, override, dry_run, SLACK_WEBHOOK_URL>>
ledgerVars == <<latest_pipelines, teams_recent_builds, team_i, service_i, fetched, printed>>
postVars == <<summaries, post_team, post_i, posted>>
vars == <<pc, error, classifierVars, inputVars, ledgerVars, postVars>>

None == [none |-> TRUE]
Ret(v) == [ret |-> v]
Raise(e) == [raise |-> e]
Raised(r) == "raise" \in DOMAIN r

Min(S) == CHOOSE x \in S : \A y \in S : x <= y

(***************************************************************************)
(* Bounds of the model.                                                    *)
(***************************************************************************)
MaxLen == 2         \* longest history handed to a classifier
MaxCreated == 2     \* created_on ranges over 0..MaxCreated
ClockTicks == 2     \* datetime.now() ranges over recent+1..recent+ClockTicks

(***************************************************************************)
(* Build records (pipelines), as the Bitbucket API returns them.           *)
(***************************************************************************)
recent == 7         \* timedelta(weeks=1), in days

Triggers == {"SCHEDULE", "PUSH"}
Patterns == {"main", "master"}
ResultNames == {"None", "FAILED", "SUCCESSFUL"}
CreatedTimes == 0..MaxCreated

PipelineRecords(results) ==
    [created_on : CreatedTimes, trigger : Triggers, pattern : Patterns, result : results]

SeqsUpTo(S, n) == UNION {[1..k -> S] : k \in 0..n}

\* the readings of a monotonic clock, one per loop iteration
ClockReadings(n, from) ==
    {c \in [1..n -> from..(recent + ClockTicks)] : \A i \in 1..n, j \in 1..n : i <= j => c[i] <= c[j]}

(***************************************************************************)
(* Variants of check_development_status: one that takes the third recent   *)
(* record, not the second, for development, and one that does not look at  *)
(* the trigger.                                                            *)
(***************************************************************************)
RECURSIVE check_development_third_loop(_, _, _, _)
check_development_third_loop(history, now, i, recent_pipelines) ==
    IF i > Len(history) THEN FALSE
    ELSE IF now[i] - history[i].created_on <= recent
         THEN IF history[i].trigger # "SCHEDULE" \/ recent_pipelines + 1 > 2
              THEN TRUE
              ELSE check_development_third_loop(history, now, i + 1, recent_pipelines + 1)
         ELSE FALSE

check_development_status_third(history, now) ==
    check_development_third_loop(history, now, 1, 0)

RECURSIVE check_development_count_loop(_, _, _, _)
check_development_count_loop(history, now, i, recent_pipelines) ==
    IF i > Len(history) THEN FALSE
    ELSE IF now[i] - history[i].created_on <= recent
         THEN IF recent_pipelines + 1 > 1
              THEN TRUE
              ELSE check_development_count_loop(history, now, i + 1, recent_pipelines + 1)
         ELSE FALSE

check_development_status_count_only(history, now) ==
    check_development_count_loop(history, now, 1, 0)

(***************************************************************************)
(* check_development_status: the loop of lines 291-310 from iteration i    *)
(* on, with recent_pipelines records counted so far; now[i] is the clock   *)
(* reading of iteration i.                                                 *)
(***************************************************************************)
RECURSIVE check_development_loop(_, _, _, _)
check_development_loop(history, now, i, recent_pipelines) ==
    IF i > Len(history) THEN FALSE
    ELSE IF now[i] - history[i].created_on <= recent
         THEN IF history[i].trigger # "SCHEDULE" \/ recent_pipelines + 1 > 1
              THEN TRUE
              ELSE check_development_loop(history, now, i + 1, recent_pipelines + 1)
         ELSE FALSE

check_development_status(history, now) == check_development_loop(history, now, 1, 0)

(***************************************************************************)
(* Variants of the loop of get_recent_scheduled_pipeline: one that passes  *)
(* over a stale record instead of stopping at it, and one that does not    *)
(* compare the branch.                                                     *)
(***************************************************************************)
RECURSIVE recent_scheduled_loop_filter(_, _, _, _)
recent_scheduled_loop_filter(history, now, default_branch, i) ==
    IF i > Len(history) THEN None
    ELSE IF /\ now[i] - history[i].created_on <= recent
            /\ history[i].trigger = "SCHEDULE"
            /\ history[i].pattern = default_branch
         THEN history[i]
         ELSE recent_scheduled_loop_filter(history, now, default_branch, i + 1)

RECURSIVE recent_scheduled_loop_any_branch(_, _, _, _)
recent_scheduled_loop_any_branch(history, now, default_branch, i) ==
    IF i > Len(history) THEN None
    ELSE IF now[i] - history[i].created_on <= recent
         THEN IF history[i].trigger = "SCHEDULE"
              THEN history[i]
              ELSE recent_scheduled_loop_any_branch(history, now, default_branch, i + 1)
         ELSE None

(***************************************************************************)
(* get_recent_scheduled_pipeline: the loop of lines 259-277 from iteration *)
(* i on, against the default branch name.                                  *)
(***************************************************************************)
RECURSIVE recent_scheduled_loop(_, _, _, _)
recent_scheduled_loop(history, now, default_branch, i) ==
    IF i > Len(history) THEN None
    ELSE IF now[i] - history[i].created_on <= recent
         THEN IF history[i].trigger = "SCHEDULE" /\ history[i].pattern = default_branch
              THEN history[i]
              ELSE recent_scheduled_loop(history, now, default_branch, i + 1)
         ELSE None

(***************************************************************************)
(* get_default_branch: the response of the branches request is an          *)
(* exception of requests, a body that is no JSON, an error-shaped body, a  *)
(* JSON object without values, or a page of the branches named main or     *)
(* master.  "None" is the branch name of a call that returned None.        *)
(***************************************************************************)
BranchPages == {<<>>, <<"main">>, <<"master">>, <<"main", "master">>}
BranchResponses ==
    {[kind |-> "exception"], [kind |-> "malformed"], [kind |-> "error"],
     [kind |-> "no values"]}
        \cup {[kind |-> "ok", values |-> v] : v \in BranchPages}

get_default_branch(response) ==
    IF response.kind = "exception" THEN Raise("ConnectionError")
    ELSE IF response.kind = "error" THEN Ret("None")
    ELSE IF response.kind = "malformed" THEN Ret("None")
    ELSE IF response.kind = "no values" THEN Raise("KeyError")
    ELSE IF Len(response.values) = 0 THEN Raise("IndexError")
    ELSE Ret(response.values[1])

get_recent_scheduled_pipeline(history, now, response) ==
    LET b == get_default_branch(response) IN
    IF Raised(b) THEN b
    ELSE Ret(recent_scheduled_loop(history, now, b.ret, 1))

(***************************************************************************)
(* The variables of a component that is not running.                       *)
(***************************************************************************)
PyNone == [type |-> "NoneType"]

NoServices ==
    /\ teams_services = <<>>
    /\ teams = <<>>
    /\ override = <<>>
    /\ dry_run = FALSE
    /\ latest_pipelines = PyNone
    /\ teams_recent_builds = <<>>
    /\ team_i = 1
    /\ service_i = 1
    /\ fetched = <<>>
    /\ printed = <<>>

NoSummaries ==
    /\ SLACK_WEBHOOK_URL = "None"
    /\ summaries = <<>>
    /\ post_team = 1
    /\ post_i = 0
    /\ posted = <<>>

NoClassifier ==
    /\ pipelines = <<>>
    /\ clock = <<>>
    /\ branch = "None"

(***************************************************************************)
(* The classifiers on their own: a history, then one call of either.  The  *)
(* code does not sort what it is given (newest first is the order asked of *)
(* the API, line 348), so a history is any sequence of records; neither    *)
(* classifier reads the result of a build, which is left absent here.      *)
(***************************************************************************)
InitClassifier ==
    /\ pc = "classify"
    /\ error = "None"
    /\ pipelines \in SeqsUpTo(PipelineRecords({"None"}), MaxLen)
    /\ clock = <<>>
    /\ branch = "None"
    /\ in_development = FALSE
    /\ recent_scheduled_pipeline = None
    /\ NoServices
    /\ NoSummaries

CheckDevelopmentStatus ==
    /\ pc = "classify"
    /\ \E now \in ClockReadings(Len(pipelines), recent + 1) :
        /\ clock' = now
        /\ in_development' = check_development_status(pipelines, now)
    /\ pc' = "checked"
    /\ UNCHANGED <<error, pipelines, branch, recent_scheduled_pipeline>>
    /\ UNCHANGED <<inputVars, ledgerVars, postVars>>

GetRecentScheduledPipeline ==
    /\ pc = "classify"
    /\ \E now \in ClockReadings(Len(pipelines), recent + 1), response \in BranchResponses :
        LET r == get_recent_scheduled_pipeline(pipelines, now, response) IN
        /\ clock' = now
        /\ IF Raised(r)
           THEN /\ pc' = "raised"
                /\ error' = r.raise
                /\ UNCHANGED <<branch, recent_scheduled_pipeline>>
           ELSE /\ pc' = "located"
                /\ branch' = get_default_branch(response).ret
                /\ recent_scheduled_pipeline' = r.ret
                /\ UNCHANGED error
    /\ UNCHANGED <<pipelines, in_development>>
    /\ UNCHANGED <<inputVars, ledgerVars, postVars>>

NextClassifier == CheckDevelopmentStatus \/ GetRecentScheduledPipeline

SpecClassifier == InitClassifier /\ [][NextClassifier]_vars

(***************************************************************************)
(* Python values whose type matters to the code: a str is the sequence of  *)
(* its hyphen-separated words, a service is the dict of the catalog.       *)
(***************************************************************************)
OVERALL_SUMMARY_RECIPIENT == ""
max_blocks_per_message == 10

MaxServices == 2    \* most services of one team

Str(words) == [type |-> "str", value |-> words]
PyList(items) == [type |-> "list", items |-> items]

SlugList == << <<"legacy", "api">>, <<"my", "legacy", "api">>, <<"web">> >>
SlugOf(k) == SlugList[((k - 1) % Len(SlugList)) + 1]
Service(slug) ==
    [type |-> "dict",
     RepositorySlug |-> Str(slug),
     RepositoryUrl |-> Str(<<"https://bitbucket.org">> \o slug)]

\* an ordered dict is the sequence of its items, in insertion order
Item(k, v) == [key |-> k, value |-> v]
DictKeys(d) == {d[n].key : n \in 1..Len(d)}
DictIndex(d, k) == CHOOSE n \in 1..Len(d) : d[n].key = k
DictGet(d, k) == d[DictIndex(d, k)].value
DictSet(d, k, v) ==
    IF k \in DictKeys(d)
    THEN [d EXCEPT ![DictIndex(d, k)] = Item(k, v)]
    ELSE Append(d, Item(k, v))

(***************************************************************************)
(* match_override: re.compile(pattern).search(repo_slug) for the patterns  *)
(* ^words and words; search raises TypeError on what is not a str.         *)
(***************************************************************************)
Pattern(anchored, words) == [anchored |-> anchored, words |-> words]

re_search(pattern, string) ==
    IF string.type # "str" THEN Raise("TypeError")
    ELSE LET n == Len(pattern.words)
             starts == IF pattern.anchored THEN {1} ELSE 1..Len(string.value)
         IN Ret(\E k \in starts :
                   /\ k + n - 1 <= Len(string.value)
                   /\ SubSeq(string.value, k, k + n - 1) = pattern.words)

RECURSIVE match_override_loop(_, _, _)
match_override_loop(repo_slug, patterns, k) ==
    IF k > Len(patterns) THEN Ret(FALSE)
    ELSE LET m == re_search(patterns[k], repo_slug) IN
         IF Raised(m) THEN m
         ELSE IF m.ret THEN Ret(TRUE)
         ELSE match_override_loop(repo_slug, patterns, k + 1)

match_override(repo_slug, patterns) == match_override_loop(repo_slug, patterns, 1)

(***************************************************************************)
(* get_latest_pipelines: the response of the pipelines request is an       *)
(* exception of requests, a body that is no JSON, an error-shaped body, or *)
(* a JSON object with or without its values.                               *)
(***************************************************************************)
get_latest_pipelines(response) ==
    IF response.kind = "exception" THEN Raise("ConnectionError")
    ELSE IF response.kind = "error" THEN Ret(PyNone)
    ELSE IF response.kind = "malformed" THEN Ret(PyNone)
    ELSE Ret(response.values)

\* not pipelines
Falsy(value) == value.type = "NoneType" \/ (value.type = "list" /\ value.items = <<>>)

\* the histories the ledger builder is run on: no build, one build, or the
\* same build twice
FetchedHistories ==
    {<<>>} \cup {<<p>> : p \in PipelineRecords(ResultNames)}
           \cup {<<p, p>> : p \in PipelineRecords(ResultNames)}

PipelinesResponses ==
    {[kind |-> "exception"], [kind |-> "malformed"], [kind |-> "error"],
     [kind |-> "ok", values |-> PyNone]}
        \cup {[kind |-> "ok", values |-> PyList(h)] : h \in FetchedHistories}

(***************************************************************************)
(* The calls process_services makes for one service, lines 466-475, with   *)
(* every response and every clock reading they can get: what they leave in *)
(* pipelines, in_development and recent_scheduled_pipeline, or the         *)
(* exception that leaves process_services.                                 *)
(***************************************************************************)
Examined(e, p, d, r) ==
    [error |-> e, pipelines |-> p, in_development |-> d, recent_scheduled_pipeline |-> r]

\* the last reading a scan that returned False took
LastReading(history, now) ==
    now[Min({i \in 1..Len(history) : now[i] - history[i].created_on > recent}
                \cup {Len(history)})]

LocateOutcomes(p, from) ==
    {LET r == get_recent_scheduled_pipeline(p.items, now, response) IN
     IF Raised(r) THEN Examined(r.raise, p, FALSE, None)
                  ELSE Examined("None", p, FALSE, r.ret) :
        now \in ClockReadings(Len(p.items), from), response \in BranchResponses}

CheckOutcomes(p) ==
    UNION {IF check_development_status(p.items, now)
           THEN {Examined("None", p, TRUE, None)}
           ELSE LocateOutcomes(p, LastReading(p.items, now)) :
              now \in ClockReadings(Len(p.items), recent + 1)}

ExamineOutcomes ==
    UNION {LET p == get_latest_pipelines(response) IN
           IF Raised(p) THEN {Examined(p.raise, PyNone, FALSE, None)}
           ELSE IF Falsy(p.ret) THEN {Examined("None", p.ret, FALSE, None)}
           ELSE CheckOutcomes(p.ret) :
              response \in PipelinesResponses}

(***************************************************************************)
(* The ledger: lines 468-486, for one service of team.                     *)
(***************************************************************************)
EmptyLedger == [Succeeded |-> <<>>, Failed |-> <<>>]

\* a variant that takes every result but SUCCESSFUL, an absent one included,
\* for a failure
record_service_unless_successful(ledger, team, service, p, d, r) ==
    IF Falsy(p) THEN ledger
    ELSE IF d THEN ledger
    ELSE IF r = None THEN ledger
    ELSE LET build_state == r.result
             entry == DictGet(ledger, team)
         IN IF build_state # "SUCCESSFUL"
            THEN DictSet(ledger, team, [entry EXCEPT !.Failed = Append(@, service)])
            ELSE DictSet(ledger, team, [entry EXCEPT !.Succeeded = Append(@, service)])

record_service(ledger, team, service, p, d, r) ==
    IF Falsy(p) THEN ledger
    ELSE IF d THEN ledger
    ELSE IF r = None THEN ledger
    ELSE LET build_state == r.result
             entry == DictGet(ledger, team)
         IN IF build_state = "FAILED"
            THEN DictSet(ledger, team, [entry EXCEPT !.Failed = Append(@, service)])
            ELSE DictSet(ledger, team, [entry EXCEPT !.Succeeded = Append(@, service)])

(***************************************************************************)
(* The renderers.  A block is a record; the text of a section is a record  *)
(* of what the message says.                                               *)
(***************************************************************************)
Header == [type |-> "header", text |-> [plain_text |-> "Build Error Notification Dispatch System"]]
Divider == [type |-> "divider"]
Section(text) == [type |-> "section", text |-> text]

successful_text(successful_builds) ==
    [successful |-> successful_builds,
     phrase |-> IF successful_builds = 1 THEN "repository had a successful build"
                                         ELSE "repositories had successful builds"]

failed_text(failed) ==
    IF Len(failed) # 0
    THEN [failed |-> [k \in 1..Len(failed) |->
                         [url |-> failed[k].RepositoryUrl, slug |-> failed[k].RepositorySlug]]]
    ELSE [no_failed_builds |-> TRUE]

team_summary(entry) ==
    <<Header, Divider, Section(successful_text(Len(entry.Succeeded))), Divider,
      Section(failed_text(entry.Failed))>>

\* a variant that leaves out only the teams with neither failed nor successful
\* builds, as the overall digest does
RECURSIVE team_summaries_any_build_loop(_, _, _)
team_summaries_any_build_loop(ledger, n, team_summaries) ==
    IF n > Len(ledger) THEN team_summaries
    ELSE IF Len(ledger[n].value.Failed) = 0 /\ Len(ledger[n].value.Succeeded) = 0
         THEN team_summaries_any_build_loop(ledger, n + 1, team_summaries)
         ELSE team_summaries_any_build_loop(ledger, n + 1,
                  DictSet(team_summaries, ledger[n].key, team_summary(ledger[n].value)))

generate_team_summaries_any_build(ledger) == team_summaries_any_build_loop(ledger, 1, <<>>)

RECURSIVE team_summaries_loop(_, _, _)
team_summaries_loop(ledger, n, team_summaries) ==
    IF n > Len(ledger) THEN team_summaries
    ELSE IF Len(ledger[n].value.Failed) = 0
         THEN team_summaries_loop(ledger, n + 1, team_summaries)
         ELSE team_summaries_loop(ledger, n + 1,
                  DictSet(team_summaries, ledger[n].key, team_summary(ledger[n].value)))

generate_team_summaries(ledger) == team_summaries_loop(ledger, 1, <<>>)

overall_team_blocks(team, entry) ==
    <<Divider, Section([team |-> team])>> \o
    (IF Len(entry.Succeeded) = 0 /\ Len(entry.Failed) = 0
     THEN <<Section([no_scheduled_builds |-> TRUE])>>
     ELSE <<Section(successful_text(Len(entry.Succeeded))), Section(failed_text(entry.Failed))>>)

RECURSIVE overall_summary_loop(_, _, _)
overall_summary_loop(ledger, n, summary) ==
    IF n > Len(ledger) THEN summary
    ELSE overall_summary_loop(ledger, n + 1,
             summary \o overall_team_blocks(ledger[n].key, ledger[n].value))

generate_overall_summary(ledger) == overall_summary_loop(ledger, 1, <<Header>>)

(***************************************************************************)
(* post_team_summaries_to_slack, one step of its loops at a time, and      *)
(* post_to_slack.                                                          *)
(***************************************************************************)
MaxBlocks == 23     \* longest block sequence handed to the dispatcher alone

\* line 54; a variant whose slice ends one block late
Chunk_one_more(blocks, i) ==
    SubSeq(blocks, i + 1,
           IF i + max_blocks_per_message + 1 < Len(blocks) THEN i + max_blocks_per_message + 1
                                                           ELSE Len(blocks))

Chunk(blocks, i) ==
    SubSeq(blocks, i + 1,
           IF i + max_blocks_per_message < Len(blocks) THEN i + max_blocks_per_message
                                                       ELSE Len(blocks))

\* a variant of post_to_slack that lets the RequestException through
PostToSlackRaising ==
    /\ pc = "post"
    /\ post_team <= Len(summaries)
    /\ post_i < Len(summaries[post_team].value)
    /\ IF SLACK_WEBHOOK_URL = "None"
       THEN /\ pc' = "aborted"
            /\ error' = "SystemExit"
            /\ UNCHANGED postVars
       ELSE \E delivered \in BOOLEAN :
            /\ posted' = Append(posted,
                                [team |-> summaries[post_team].key,
                                 blocks |-> Chunk(summaries[post_team].value, post_i),
                                 delivered |-> delivered])
            /\ IF delivered
               THEN /\ post_i' = post_i + max_blocks_per_message
                    /\ UNCHANGED <<pc, error>>
               ELSE /\ pc' = "aborted"
                    /\ error' = "RequestException"
                    /\ UNCHANGED post_i
            /\ UNCHANGED <<summaries, post_team>>
    /\ UNCHANGED <<classifierVars, inputVars, ledgerVars>>

\* lines 53-55 and 29-39: one chunk is posted; a RequestException is logged
\* and swallowed, a missing webhook URL exits the process
PostToSlack ==
    /\ pc = "post"
    /\ post_team <= Len(summaries)
    /\ post_i < Len(summaries[post_team].value)
    /\ IF SLACK_WEBHOOK_URL = "None"
       THEN /\ pc' = "aborted"
            /\ error' = "SystemExit"
            /\ UNCHANGED postVars
       ELSE /\ \E delivered \in BOOLEAN :
                posted' = Append(posted,
                                 [team |-> summaries[post_team].key,
                                  blocks |-> Chunk(summaries[post_team].value, post_i),
                                  delivered |-> delivered])
            /\ post_i' = post_i + max_blocks_per_message
            /\ UNCHANGED <<pc, error, summaries, post_team>>
    /\ UNCHANGED <<classifierVars, inputVars, ledgerVars>>

\* line 53 exhausted: line 52 takes the next team
NextSummary ==
    /\ pc = "post"
    /\ post_team <= Len(summaries)
    /\ post_i >= Len(summaries[post_team].value)
    /\ post_team' = post_team + 1
    /\ post_i' = 0
    /\ UNCHANGED <<pc, error, summaries, posted>>
    /\ UNCHANGED <<classifierVars, inputVars, ledgerVars>>

\* line 52 exhausted
PostingDone ==
    /\ pc = "post"
    /\ post_team > Len(summaries)
    /\ pc' = "done"
    /\ UNCHANGED <<error, classifierVars, inputVars, ledgerVars, postVars>>

(***************************************************************************)
(* process_services.                                                       *)
(***************************************************************************)
CurrentTeam == teams_services[team_i].key
CurrentServices == teams_services[team_i].value

\* lines 448-456: the next team, skipped when an allow-list leaves it out
EnterTeam ==
    /\ pc = "teams"
    /\ team_i <= Len(teams_services)
    /\ IF teams # <<>> /\ ~(\E k \in 1..Len(teams) : teams[k] = CurrentTeam)
       THEN /\ team_i' = team_i + 1
            /\ UNCHANGED <<pc, teams_recent_builds, service_i>>
       ELSE /\ teams_recent_builds' = DictSet(teams_recent_builds, CurrentTeam, EmptyLedger)
            /\ service_i' = 1
            /\ pc' = "services"
            /\ UNCHANGED team_i
    /\ UNCHANGED <<error, classifierVars, inputVars, postVars>>
    /\ UNCHANGED <<latest_pipelines, fetched, printed>>

\* lines 457-475: the ignore list, then the requests and the classifiers
ExamineService ==
    /\ pc = "services"
    /\ service_i <= Len(CurrentServices)
    /\ LET service == CurrentServices[service_i]
           repo_slug == service.RepositorySlug
           overridden == IF override # <<>> THEN match_override(service, override)
                                            ELSE Ret(FALSE)
       IN IF Raised(overridden)
          THEN /\ pc' = "aborted"
               /\ error' = overridden.raise
               /\ UNCHANGED <<latest_pipelines, in_development, recent_scheduled_pipeline>>
               /\ UNCHANGED <<service_i, fetched>>
          ELSE IF overridden.ret
          THEN /\ service_i' = service_i + 1
               /\ UNCHANGED <<pc, error, fetched>>
               /\ UNCHANGED <<latest_pipelines, in_development, recent_scheduled_pipeline>>
          ELSE /\ fetched' = Append(fetched, repo_slug)
               /\ \E o \in ExamineOutcomes :
                    /\ latest_pipelines' = o.pipelines
                    /\ in_development' = o.in_development
                    /\ recent_scheduled_pipeline' = o.recent_scheduled_pipeline
                    /\ error' = o.error
                    /\ pc' = IF o.error # "None" THEN "aborted" ELSE "record"
               /\ UNCHANGED service_i
    /\ UNCHANGED <<pipelines, clock, branch, inputVars, postVars>>
    /\ UNCHANGED <<teams_recent_builds, team_i, printed>>

\* lines 468-486: the service is entered in the ledger, or skipped; what the
\* iteration left in its locals is read no more and is dropped
RecordService ==
    /\ pc = "record"
    /\ teams_recent_builds' =
           record_service(teams_recent_builds, CurrentTeam, CurrentServices[service_i],
                          latest_pipelines, in_development, recent_scheduled_pipeline)
    /\ service_i' = service_i + 1
    /\ latest_pipelines' = PyNone
    /\ in_development' = FALSE
    /\ recent_scheduled_pipeline' = None
    /\ pc' = "services"
    /\ UNCHANGED <<error, pipelines, clock, branch, inputVars, postVars>>
    /\ UNCHANGED <<team_i, fetched, printed>>

\* line 457 exhausted: line 448 takes the next team
LeaveTeam ==
    /\ pc = "services"
    /\ service_i > Len(CurrentServices)
    /\ team_i' = team_i + 1
    /\ pc' = "teams"
    /\ UNCHANGED <<error, classifierVars, inputVars, postVars>>
    /\ UNCHANGED <<latest_pipelines, teams_recent_builds, service_i, fetched, printed>>

\* lines 489-497: what the dry run logs
dry_run_log(ledger) ==
    [n \in 1..Len(ledger) |->
        [team |-> ledger[n].key,
         failed |-> [k \in 1..Len(ledger[n].value.Failed) |->
                        ledger[n].value.Failed[k].RepositorySlug]]]

\* lines 487-501: the dry run's log, or the digests of the teams
Report ==
    /\ pc = "teams"
    /\ team_i > Len(teams_services)
    /\ IF dry_run
       THEN /\ printed' = dry_run_log(teams_recent_builds)
            /\ pc' = "done"
            /\ UNCHANGED postVars
       ELSE /\ summaries' = generate_team_summaries(teams_recent_builds)
            /\ pc' = "summarised"
            /\ UNCHANGED <<printed, post_team, post_i, posted>>
    /\ UNCHANGED <<error, classifierVars, inputVars>>
    /\ UNCHANGED <<latest_pipelines, teams_recent_builds, team_i, service_i, fetched>>

\* lines 502-504: the overall digest (of line 499) is stored under its
\* recipient, and post_team_summaries_to_slack is called
StoreOverallSummary ==
    /\ pc = "summarised"
    /\ summaries' = DictSet(summaries, OVERALL_SUMMARY_RECIPIENT,
                            generate_overall_summary(teams_recent_builds))
    /\ post_team' = 1
    /\ post_i' = 0
    /\ pc' = "post"
    /\ UNCHANGED <<error, classifierVars, inputVars, ledgerVars, posted>>

(***************************************************************************)
(* A pass of process_services over a catalog of two teams.                 *)
(***************************************************************************)
Catalog(n1, n2) ==
    <<Item("core", [k \in 1..n1 |-> Service(SlugOf(k))]),
      Item(OVERALL_SUMMARY_RECIPIENT, [k \in 1..n2 |-> Service(SlugOf(k + 1))])>>
Catalogs == {Catalog(n1, n2) : n1 \in 0..MaxServices, n2 \in 0..MaxServices}
TeamFilters == {<<>>, <<"core">>}
OverrideLists ==
    {<<>>, <<Pattern(TRUE, <<"legacy">>)>>, <<Pattern(FALSE, <<"legacy">>)>>}
WebhookUrls == {"None", "https://hooks.slack.com/services"}

Init ==
    /\ pc = "teams"
    /\ error = "None"
    /\ NoClassifier
    /\ in_development = FALSE
    /\ recent_scheduled_pipeline = None
    /\ teams_services \in Catalogs
    /\ teams \in TeamFilters
    /\ override \in OverrideLists
    /\ dry_run \in BOOLEAN
    /\ SLACK_WEBHOOK_URL \in WebhookUrls
    /\ latest_pipelines = PyNone
    /\ teams_recent_builds = <<>>
    /\ team_i = 1
    /\ service_i = 1
    /\ fetched = <<>>
    /\ printed = <<>>
    /\ summaries = <<>>
    /\ post_team = 1
    /\ post_i = 0
    /\ posted = <<>>

Next ==
    \/ EnterTeam
    \/ ExamineService
    \/ RecordService
    \/ LeaveTeam
    \/ Report
    \/ StoreOverallSummary
    \/ PostToSlack
    \/ NextSummary
    \/ PostingDone

Spec == Init /\ [][Next]_vars

(***************************************************************************)
(* post_team_summaries_to_slack on its own, on the summaries of two teams. *)
(***************************************************************************)
Blocks(n) == [k \in 1..n |-> Section([line |-> k])]
DispatcherSummaries ==
    {<<Item("core", Blocks(n1)), Item(OVERALL_SUMMARY_RECIPIENT, Blocks(n2))>> :
        n1 \in 0..MaxBlocks, n2 \in 0..MaxBlocks}

InitDispatcher ==
    /\ pc = "post"
    /\ error = "None"
    /\ NoClassifier
    /\ in_development = FALSE
    /\ recent_scheduled_pipeline = None
    /\ teams_services = <<>>
    /\ teams = <<>>
    /\ override = <<>>
    /\ dry_run = FALSE
    /\ latest_pipelines = PyNone
    /\ teams_recent_builds = <<>>
    /\ team_i = 1
    /\ service_i = 1
    /\ fetched = <<>>
    /\ printed = <<>>
    /\ SLACK_WEBHOOK_URL \in WebhookUrls
    /\ summaries \in DispatcherSummaries
    /\ post_team = 1
    /\ post_i = 0
    /\ posted = <<>>

NextDispatcher == PostToSlack \/ NextSummary \/ PostingDone

SpecDispatcher == InitDispatcher /\ [][NextDispatcher]_vars

(***************************************************************************)
(* Vocabulary of the classifier claims.                                    *)
(***************************************************************************)
InWindow(history, now, i) == now[i] - history[i].created_on <= recent
WindowRecords(history, now) == {i \in 1..Len(history) : InWindow(history, now, i)}
NewestFirst(history) ==
    \A i \in 1..Len(history), j \in 1..Len(history) :
        i <= j => history[i].created_on >= history[j].created_on
\* the index of the first record whose age exceeds the window, if any
StopIndex(history, now) ==
    Min({i \in 1..Len(history) : ~InWindow(history, now, i)} \cup {Len(history) + 1})
BeforeStop(s, history, now) == SubSeq(s, 1, StopIndex(history, now) - 1)

\* C1: on a newest-first history, two or more records within the window give
\* "in development" whatever their triggers; exactly one record within the
\* window, scheduled, gives "not in development"; so does the empty history.
C1_SecondRecentRecordRule ==
    (pc = "checked" /\ NewestFirst(pipelines)) =>
        LET W == WindowRecords(pipelines, clock) IN
        /\ Cardinality(W) >= 2 => in_development
        /\ (Cardinality(W) = 1 /\ \A i \in W : pipelines[i].trigger = "SCHEDULE")
               => ~in_development
        /\ pipelines = <<>> => ~in_development

C1_Witness ==
    /\ pc = "checked"
    /\ Len(pipelines) = 2
    /\ NewestFirst(pipelines)
    /\ WindowRecords(pipelines, clock) = {1, 2}
    /\ \A i \in 1..2 : pipelines[i].trigger = "SCHEDULE"
    /\ in_development

\* C2, as stated: a non-scheduled newest record gives "in development",
\* whatever its age.
C2_NewestNonScheduledAnyAge ==
    (pc = "checked" /\ Len(pipelines) >= 1 /\ pipelines[1].trigger # "SCHEDULE")
        => in_development

\* C2, amended: a non-scheduled newest record whose age is within the window
\* gives "in development", whatever the older records are.
C2_NewestNonScheduledInWindow ==
    (/\ pc = "checked"
     /\ Len(pipelines) >= 1
     /\ pipelines[1].trigger # "SCHEDULE"
     /\ InWindow(pipelines, clock, 1))
        => in_development

C2_Witness ==
    /\ pc = "checked"
    /\ Len(pipelines) = 2
    /\ pipelines[1].trigger # "SCHEDULE"
    /\ InWindow(pipelines, clock, 1)
    /\ pipelines[2].trigger = "SCHEDULE"
    /\ ~InWindow(pipelines, clock, 2)
    /\ in_development

\* C3: both scans stop at the first record older than the window: the result
\* is the result on the records before it, and no record at or after it is
\* looked at; one stale scheduled record gives "not in development" and no
\* recent scheduled build.
C3_StaleRecordStopsScan ==
    /\ pc = "checked" =>
        /\ in_development =
               check_development_status(BeforeStop(pipelines, pipelines, clock),
                                        BeforeStop(clock, pipelines, clock))
        /\ StopIndex(pipelines, clock) = 1 => ~in_development
    /\ pc = "located" =>
        /\ recent_scheduled_pipeline =
               recent_scheduled_loop(BeforeStop(pipelines, pipelines, clock),
                                     BeforeStop(clock, pipelines, clock), branch, 1)
        /\ StopIndex(pipelines, clock) = 1 => recent_scheduled_pipeline = None

C3_Witness ==
    /\ pc = "located"
    /\ Len(pipelines) = 2
    /\ ~InWindow(pipelines, clock, 1)
    /\ InWindow(pipelines, clock, 2)
    /\ pipelines[2].trigger = "SCHEDULE"
    /\ pipelines[2].pattern = branch
    /\ recent_scheduled_pipeline = None

\* C4: the recent scheduled build is the first record before the window stop
\* that is scheduled and targets the default branch; None when there is none,
\* and never a record of another branch (so None for an unknown branch).
C4_FirstScheduledOnDefaultBranch ==
    pc = "located" =>
        LET M == {i \in 1..(StopIndex(pipelines, clock) - 1) :
                     /\ pipelines[i].trigger = "SCHEDULE"
                     /\ pipelines[i].pattern = branch}
        IN /\ IF M = {} THEN recent_scheduled_pipeline = None
                        ELSE recent_scheduled_pipeline = pipelines[Min(M)]
           /\ recent_scheduled_pipeline # None => recent_scheduled_pipeline.pattern = branch
           /\ branch = "None" => recent_scheduled_pipeline = None

C4_Witness ==
    /\ pc = "located"
    /\ Len(pipelines) = 2
    /\ pipelines[1].trigger = "SCHEDULE"
    /\ pipelines[1].pattern # branch
    /\ InWindow(pipelines, clock, 1)
    /\ pipelines[1] # pipelines[2]
    /\ recent_scheduled_pipeline = pipelines[2]

(***************************************************************************)
(* Vocabulary of the ledger claims.                                        *)
(***************************************************************************)
Elements(s) == {s[k] : k \in 1..Len(s)}
Eligible ==
    /\ ~Falsy(latest_pipelines)
    /\ ~in_development
    /\ recent_scheduled_pipeline # None

\* C5: when a service is recorded, it is appended to the Failed list of its
\* own team if it has a non-empty history, is not in development and has a
\* recent scheduled build whose result is exactly FAILED; to the Succeeded
\* list of its own team if it has all that with any other result, an absent
\* one included; and to no list otherwise.  No other list changes.
C5_LedgerEntry ==
    [][pc = "record" =>
        LET service == CurrentServices[service_i]
            failed == Eligible /\ recent_scheduled_pipeline.result = "FAILED"
            succeeded == Eligible /\ recent_scheduled_pipeline.result # "FAILED"
        IN /\ Len(teams_recent_builds') = Len(teams_recent_builds)
           /\ Eligible =>
                 /\ recent_scheduled_pipeline \in Elements(latest_pipelines.items)
                 /\ recent_scheduled_pipeline.trigger = "SCHEDULE"
           /\ \A n \in 1..Len(teams_recent_builds) :
                 LET old == teams_recent_builds[n]
                     new == teams_recent_builds'[n]
                     own == old.key = CurrentTeam
                 IN /\ new.key = old.key
                    /\ new.value.Failed =
                           IF own /\ failed THEN Append(old.value.Failed, service)
                                            ELSE old.value.Failed
                    /\ new.value.Succeeded =
                           IF own /\ succeeded THEN Append(old.value.Succeeded, service)
                                               ELSE old.value.Succeeded]_vars

C5_Witness ==
    /\ pc = "services"
    /\ Len(teams_recent_builds) = 2
    /\ Len(fetched) = 4
    /\ Len(teams_recent_builds[1].value.Failed) = 1
    /\ teams_recent_builds[1].value.Succeeded = <<>>
    /\ teams_recent_builds[2].value.Failed = <<>>
    /\ Len(teams_recent_builds[2].value.Succeeded) = 1

\* C6: a fetch that fails for one repository, a network exception included,
\* never ends the pass.
C6_FetchFailureNeverAborts ==
    ~(pc = "aborted" /\ error = "ConnectionError")

\* C7: with a non-empty ignore list the pass goes on: no exception of the
\* filter ends it, no history is requested for a repository whose slug a
\* pattern is found in, and no such repository is in a ledger.
Ignored(repo_slug) ==
    \E k \in 1..Len(override) : re_search(override[k], repo_slug).ret

C7_IgnoredServicesSkipped ==
    override # <<>> =>
        /\ ~(pc = "aborted" /\ error = "TypeError")
        /\ \A k \in 1..Len(fetched) : ~Ignored(fetched[k])
        /\ \A n \in 1..Len(teams_recent_builds) :
              \A service \in Elements(teams_recent_builds[n].value.Succeeded)
                                \cup Elements(teams_recent_builds[n].value.Failed) :
                  ~Ignored(service.RepositorySlug)

\* C8: the per-team digests are those of exactly the teams of the ledger with
\* at least one failed build, whatever their number of successful builds.
C8_TeamsWithFailures ==
    pc = "summarised" =>
        DictKeys(summaries) =
            {teams_recent_builds[n].key :
                n \in {m \in 1..Len(teams_recent_builds) :
                          Len(teams_recent_builds[m].value.Failed) >= 1}}

C8_Witness ==
    /\ pc = "summarised"
    /\ Len(teams_recent_builds) = 2
    /\ teams_recent_builds[1].value.Succeeded = <<>>
    /\ Len(teams_recent_builds[1].value.Failed) = 2
    /\ Len(teams_recent_builds[2].value.Succeeded) = 1
    /\ teams_recent_builds[2].value.Failed = <<>>
    /\ DictKeys(summaries) = {teams_recent_builds[1].key}

(***************************************************************************)
(* Vocabulary of the dispatcher claims.                                    *)
(***************************************************************************)
Ceil(n, d) == (n + d - 1) \div d
Call(k) == [team |-> posted[k].team, blocks |-> posted[k].blocks]

RECURSIVE Concat(_)
Concat(chunks) ==
    IF chunks = <<>> THEN <<>> ELSE Head(chunks).blocks \o Concat(Tail(chunks))

\* the calls a sequence of blocks is to give, in order
ExpectedOf(team, blocks) ==
    [j \in 1..Ceil(Len(blocks), 10) |->
        [team |-> team,
         blocks |-> [k \in 1..(IF 10 * j <= Len(blocks) THEN 10 ELSE Len(blocks) - 10 * (j - 1))
                        |-> blocks[10 * (j - 1) + k]]]]

RECURSIVE ExpectedCalls(_)
ExpectedCalls(d) ==
    IF d = <<>> THEN <<>>
    ELSE ExpectedOf(Head(d).key, Head(d).value) \o ExpectedCalls(Tail(d))

\* C9: when the dispatcher is done, the calls tagged with a team number
\* ceil(n / 10) for its n blocks, all but the last carry 10 blocks, and their
\* blocks in call order are the team's sequence.
C9_PositionalChunks ==
    pc = "done" =>
        \A n \in 1..Len(summaries) :
            LET blocks == summaries[n].value
                OfTeam(call) == call.team = summaries[n].key
                calls == SelectSeq(posted, OfTeam)
            IN /\ Len(calls) = Ceil(Len(blocks), 10)
               /\ \A k \in 1..(Len(calls) - 1) : Len(calls[k].blocks) = 10
               /\ \A k \in 1..Len(calls) : Len(calls[k].blocks) \in 1..10
               /\ Concat(calls) = blocks

C9_Witness ==
    /\ pc = "done"
    /\ Len(summaries[1].value) = 23
    /\ Len(summaries[2].value) = 0
    /\ Len(posted) = 3
    /\ Len(posted[1].blocks) = 10
    /\ Len(posted[2].blocks) = 10
    /\ Len(posted[3].blocks) = 3

\* C10: a delivery that fails ends nothing and is not repeated: the calls
\* made so far are the first of the calls to make, each once and in order,
\* whichever of them failed; no failure ends the dispatch, and when it is
\* done every call has been made.
C10_FailureSwallowed ==
    /\ Len(posted) <= Len(ExpectedCalls(summaries))
    /\ \A k \in 1..Len(posted) : Call(k) = ExpectedCalls(summaries)[k]
    /\ pc = "aborted" => (error = "SystemExit" /\ posted = <<>>)
    /\ pc = "done" => Len(posted) = Len(ExpectedCalls(summaries))
    /\ (pc = "post" /\ \E k \in 1..Len(posted) : ~posted[k].delivered) => error = "None"

C10_Witness ==
    /\ pc = "done"
    /\ Len(posted) = 5
    /\ ~posted[1].delivered
    /\ posted[2].team = posted[1].team
    /\ posted[2].delivered
    /\ ~posted[4].delivered
    /\ posted[4].team # posted[1].team
    /\ posted[5].delivered

(***************************************************************************)
(* Vocabulary of the claim on the digests of a pass.                       *)
(***************************************************************************)
\* the digest of the n-th team of the ledger went out under the team's name
TeamDigestPosted(n) ==
    \E k \in 1..Len(posted) :
        /\ posted[k].team = teams_recent_builds[n].key
        /\ posted[k].blocks = team_summary(teams_recent_builds[n].value)

\* the overall digest went out under the name of its recipient
OverallDigestPosted ==
    \E i \in 1..Len(posted), j \in 1..Len(posted) :
        /\ i <= j
        /\ \A k \in i..j : posted[k].team = OVERALL_SUMMARY_RECIPIENT
        /\ Concat(SubSeq(posted, i, j)) = generate_overall_summary(teams_recent_builds)

\* C11: when a pass that is no dry run is done, the digest of every team with
\* at least one failed build has been dispatched under the team's name, and
\* the overall digest under the name of its recipient, whatever the teams are
\* called.
C11_EveryDigestDispatched ==
    (pc = "done" /\ ~dry_run) =>
        /\ OverallDigestPosted
        /\ \A n \in 1..Len(teams_recent_builds) :
               Len(teams_recent_builds[n].value.Failed) >= 1 => TeamDigestPosted(n)

====
